---------------------------- MODULE Spec2Model ----------------------------
(***************************************************************************)
(* Model of the batch orchestration core of the Bodegon Creator agent     *)
(* (src/src/agents/types.ts, agent part from line 278 on) together with   *)
(* the progress tracker/manager it drives (src/unnamed/part_000).          *)
(*                                                                         *)
(* JavaScript runs one task to completion between suspension points, so    *)
(* every action below is the code executed between two suspension points: *)
(* a call of the public API, the resumption of the async generator by its *)
(* consumer, or the settling of an awaited promise.                        *)
(*                                                                         *)
(* Abstractions: a URL is the 1-based position of its request in the       *)
(* batch; capturedImages and compositions are represented by their        *)
(* lengths; dates and durations are left out; uuidv4() is a value that is  *)
(* unique per call site and request.                                       *)
(***************************************************************************)
EXTENDS Naturals, Integers, Sequences, FiniteSets, TLC

(* ------------------------------ bounds -------------------------------- *)
\* largest batch submitted
MaxRequests == 4
\* largest batch.maxConcurrent submitted (the schema allows 1..10)
MaxConcurrentArg == 3

(* ------------------------- program constants -------------------------- *)
\* Math.min(requests.length, 3) in processParallel
ParallelLimit == 3
\* simulateCapturedImages: Math.floor(Math.random() * 3) + 1
MaxSimulatedImages == 3

\* message thrown by processRequest when it sees the cancellation flag
CancelMessage == "Procesamiento cancelado por el usuario"
\* messages of the errors the query stream can raise
QueryErrors == {"timeout"}

Undefined == 0

Max(a, b) == IF a >= b THEN a ELSE b

Min(a, b) == IF a < b THEN a ELSE b

RECURSIVE SumOver(_, _)
\* Array.prototype.reduce((sum, r) => sum + f(r), 0) over a sequence of results
SumOver(s, field) ==
    IF s = <<>> THEN 0 ELSE s[1][field] + SumOver(Tail(s), field)

RECURSIVE Flatten(_)
Flatten(ss) == IF ss = <<>> THEN <<>> ELSE ss[1] \o Flatten(Tail(ss))

\* { ...a, ...b }
Merge(a, b) == [f \in DOMAIN a |-> IF f \in DOMAIN b THEN b[f] ELSE a[f]]

\* uuidv4(): a fresh identifier, unique per call site and request
uuidv4(site, url) == <<site, url>>

(* ------------------------------- state -------------------------------- *)
VARIABLES
    workflowState,    \* module-level workflowState
    progressManager,  \* module-level progressManager (created = FALSE: null)
    isCancelled,      \* module-level isCancelled
    onProgress,       \* options.onProgress given and config.progress.interactive
    batch,            \* the batch handed to processBatch
    pc,               \* position of the executeBatchProcessing generator
    i,                \* loop index of processSequential / chunk index of processParallel
    reqs,             \* per request: state of its processRequest promise
    emitted,          \* result batches received by the consumer, in order
    runEnd            \* how the generator ended

\* state of the batch executor
execVars == <<workflowState, progressManager, isCancelled, onProgress, batch, pc, i,
              reqs, emitted, runEnd>>

\* the retry module (src/unnamed/part_001) and one call of retryWithStrategy
VARIABLES
    strategyConfig,   \* module-level strategyConfig
    strategy,         \* the strategy object built for the call
    rpc,              \* position of retryWithStrategy
    attempt,          \* loop variable of retryWithStrategy
    lastError,        \* local lastError
    opCalls,          \* number of invocations of operation()
    slept,            \* the delays passed to sleep(), in order
    hooks,            \* the calls of onRetry / onSuccess / onFailure, in order
    outcome           \* how the promise of retryWithStrategy settled

retryVars == <<strategyConfig, strategy, rpc, attempt, lastError, opCalls, slept,
               hooks, outcome>>

\* Date.now(), in ticks
VARIABLES now

\* one CircuitBreaker (src/unnamed/part_001) and the execute calls made on it
VARIABLES
    breaker,          \* the CircuitBreaker object (created = FALSE: not constructed yet)
    calls,            \* the execute calls, in order of arrival
    streak            \* operations that failed since the last success or reset()

breakerVars == <<breaker, calls, streak>>

\* one ProgressTrackerImpl (src/unnamed/part_000) used on its own, and the
\* snapshots handed out by it
VARIABLES
    tracker,          \* this.state of the tracker; its errors field is a reference
    arrays,           \* the errors arrays allocated so far, by reference
    snapshots,        \* the objects returned by getProgress(), with their contents then
    trackerCalls      \* number of calls made on the tracker

\* the objects returned by the agent's getState(), and the updates between them
VARIABLES observed

trackerVars == <<tracker, arrays, snapshots, trackerCalls, observed>>

\* one ProgressManager with its tracker and formatter (src/unnamed/part_000),
\* driven as the agent drives it during one run
VARIABLES
    manager,          \* the ProgressManager, its tracker state and its formatter
    renders,          \* the formatter.update calls, in order, with what each wrote
    phase             \* where the run is: cancel() called, run ended, interval firings

reporterVars == <<manager, renders, phase>>

\* one MultiWorkflowProgressManager (src/unnamed/part_000) and the managers
\* it has created
VARIABLES
    managers,         \* this.managers: the entries of the Map, in insertion order
    objects,          \* the ProgressManager objects created so far, by reference
    returned,         \* what the last call on the multi-manager returned
    multiCalls        \* number of calls made on the multi-manager and its managers

multiVars == <<managers, objects, returned, multiCalls>>

\* the calls made on the agent beside the run the executor's variables hold
VARIABLES
    single,           \* the run was obtained through processSingle
    other,            \* the generator of the other processBatch call, suspended
    hist              \* how the current run met the other one and cancel()

callVars == <<single, other, hist>>

vars == <<execVars, retryVars, now, breakerVars, trackerVars, reporterVars, multiVars, callVars>>

\* what an action of the executor leaves alone
nonExecVars == <<retryVars, now, breakerVars, trackerVars, reporterVars, multiVars, callVars>>
\* what an action of the retry module leaves alone
nonRetryVars == <<execVars, now, breakerVars, trackerVars, reporterVars, multiVars, callVars>>
\* what an action of the circuit breaker leaves alone (the clock apart)
nonBreakerVars == <<execVars, retryVars, trackerVars, reporterVars, multiVars, callVars>>
\* what a tick of the clock leaves alone
nonClockVars == <<execVars, retryVars, breakerVars, trackerVars, reporterVars, multiVars, callVars>>
\* what an action on the tracker leaves alone
nonTrackerVars == <<execVars, retryVars, now, breakerVars, reporterVars, multiVars, callVars>>
\* what an action of the progress manager leaves alone (the clock apart)
nonReporterVars == <<execVars, retryVars, breakerVars, trackerVars, multiVars, callVars>>
\* what an action on the multi-manager leaves alone
nonMultiVars == <<execVars, retryVars, now, breakerVars, trackerVars, reporterVars,
                  callVars>>
\* what a call on the agent leaves alone beside the executor's variables
nonAgentVars == <<retryVars, now, breakerVars, trackerVars, reporterVars, multiVars>>
\* the executor's variables that updateWorkflowState and getState leave alone
nonStateVars == <<isCancelled, onProgress, batch, pc, i, reqs, emitted, runEnd>>

\* the WorkflowState literal of createBodegonAgent and processBatch
initialWorkflowState(total) ==
    [step |-> "setup", totalRequests |-> total, completedRequests |-> 0,
     currentRequestIndex |-> 0, imagesCollected |-> 0, compositionsCreated |-> 0,
     errors |-> <<>>, eta |-> "undefined", currentRequest |-> Undefined]

(* --------------------------- progress tracker ------------------------- *)
\* variant: an ETA as soon as totalRequests > 0
trackerUpdateProgressEager(state, updates) ==
    LET s == Merge(state, updates)
    IN  IF s.totalRequests > 0
        THEN [s EXCEPT !.eta = "eta"]
        ELSE s

\* ProgressTrackerImpl.updateProgress
trackerUpdateProgress(state, updates) ==
    LET s == Merge(state, updates)
    IN  IF s.totalRequests > 0 /\ s.completedRequests > 0
        THEN [s EXCEPT !.eta = "eta"]
        ELSE s

\* progressManager = null
NoProgressManager ==
    [created |-> FALSE, isActive |-> FALSE, interval |-> FALSE,
     tracker |-> initialWorkflowState(0)]

\* new ProgressManager()
NewProgressManager ==
    [created |-> TRUE, isActive |-> FALSE, interval |-> FALSE,
     tracker |-> initialWorkflowState(0)]

\* ProgressManager.start(initialState)
pmStart(pm, initialState) ==
    IF pm.isActive THEN pm
    ELSE [pm EXCEPT !.isActive = TRUE,
                    !.tracker = trackerUpdateProgress(pm.tracker, initialState),
                    !.interval = TRUE]

\* ProgressManager.stop()
pmStop(pm) == [pm EXCEPT !.interval = FALSE, !.isActive = FALSE]

\* ProgressManager.updateProgress(updates)
pmUpdateProgress(pm, updates) ==
    [pm EXCEPT !.tracker = trackerUpdateProgress(pm.tracker, updates)]

\* if (progressManager) { progressManager.stop(); }
stopIfPresent(pm) == IF pm.created THEN pmStop(pm) ELSE pm

(* ------------------------------ executor ------------------------------ *)
\* updateWorkflowState(updates) on the pair h = [ws, pm]
updateWorkflowState(h, updates) ==
    LET ws == Merge(h.ws, updates)
    IN  [ws |-> ws,
         pm |-> IF h.pm.created THEN pmUpdateProgress(h.pm, ws) ELSE h.pm]

\* variant: the snapshot carries the number of snapshots handed out before
getStateStamped == [workflowState EXCEPT !.currentRequestIndex = Len(observed)]

\* getState(): { ...workflowState }, the fields of workflowState
getState == workflowState

NoBatch == [requests |-> <<>>, parallelProcessing |-> FALSE, maxConcurrent |-> 1]

PendingRequest ==
    [st |-> "pending", requestId |-> uuidv4("none", 0), capturedImages |-> 0,
     compositions |-> 0, error |-> "none"]

(* ------------------------------- retry -------------------------------- *)
\* bounds of the RetryConfig values tried
MaxAttemptsArg == 3
MaxBaseDelay == 2
MaxMaxDelay == 2
MaxMultiplier == 2
\* Math.random() takes the values 0/RandomSteps .. (RandomSteps-1)/RandomSteps
RandomSteps == 2

\* delays are held as integers, in units of 1/DelayScale of a millisecond
DelayScale == 10 * RandomSteps

\* an error message is the sequence of the phrases it is made of
TimeoutError == <<"timeout">>
AuthError == <<"Authentication failed">>
InvalidUrlError == <<"Invalid URL">>
ErrorMessages == {TimeoutError, AuthError, InvalidUrlError}
NoError == <<>>

\* retryablePatterns of ExponentialBackoffRetryImpl.isRetryableError
RetryablePatterns ==
    {"timeout", "connection", "network", "temporary", "rate limit",
     "too many requests", "ECONNRESET", "ENOTFOUND", "ETIMEDOUT", "502", "503", "504"}

\* the phrases FixedDelayRetryImpl.isRetryableError looks for
FatalPhrases == {"Authentication failed", "Permission denied", "Invalid configuration"}

\* patterns.some(p => p.test(message)) / message.includes(phrase)
Contains(message, phrases) == \E k \in DOMAIN message : message[k] \in phrases

\* ExponentialBackoffRetryImpl.isRetryableError
exponentialIsRetryableError(error) == Contains(error, RetryablePatterns)

\* FixedDelayRetryImpl.isRetryableError
fixedIsRetryableError(error) == ~Contains(error, FatalPhrases)

\* this.isRetryableError(error) of the strategy object
isRetryableError(strat, error) ==
    IF strat.kind = "fixed" THEN fixedIsRetryableError(error)
    ELSE exponentialIsRetryableError(error)

\* variant: the error is not looked at
shouldRetryWhateverError(strat, att, error) == att < strat.config.maxAttempts

\* shouldRetry(attempt, error), the same text in both strategies
shouldRetry(strat, att, error) ==
    att < strat.config.maxAttempts /\ isRetryableError(strat, error)

\* Math.min(baseDelay * Math.pow(backoffMultiplier, attempt - 1), maxDelay)
cappedDelay(config, att) ==
    Min(config.baseDelay * (config.backoffMultiplier ^ (att - 1)), config.maxDelay)

\* variant: the delay is not capped
getDelayUncapped(strat, att, rnd) ==
    LET d == strat.config.baseDelay * (strat.config.backoffMultiplier ^ (att - 1))
    IN  IF strat.kind = "fixed" THEN strat.config.baseDelay * DelayScale
        ELSE IF strat.config.jitter THEN d * DelayScale + d * rnd
        ELSE d * DelayScale

\* getDelay(attempt) of the strategy object, with Math.random() = rnd/RandomSteps;
\* cappedDelay * 0.1 * random is cappedDelay * rnd in units of 1/DelayScale
getDelay(strat, att, rnd) ==
    IF strat.kind = "fixed" THEN strat.config.baseDelay * DelayScale
    ELSE IF strat.config.jitter
         THEN cappedDelay(strat.config, att) * DelayScale
                 + cappedDelay(strat.config, att) * rnd
         ELSE cappedDelay(strat.config, att) * DelayScale

\* let strategyConfig = { maxAttempts: 3, baseDelay: 2000, ... }
defaultStrategyConfig ==
    [maxAttempts |-> 3, baseDelay |-> 2000, maxDelay |-> 30000,
     backoffMultiplier |-> 2, jitter |-> TRUE]

NoStrategy == [kind |-> "none", config |-> defaultStrategyConfig]
NoOutcome == [kind |-> "none", attempts |-> 0, error |-> NoError]

\* the RetryConfig values a caller passes
RetryConfigs ==
    [maxAttempts : 1..MaxAttemptsArg, baseDelay : 1..MaxBaseDelay,
     maxDelay : 1..MaxMaxDelay, backoffMultiplier : 1..MaxMultiplier,
     jitter : BOOLEAN]

RetryInit ==
    /\ strategyConfig = defaultStrategyConfig
    /\ strategy = NoStrategy
    /\ rpc = "idle"
    /\ attempt = 0
    /\ lastError = NoError
    /\ opCalls = 0
    /\ slept = <<>>
    /\ hooks = <<>>
    /\ outcome = NoOutcome

(* --------------------------- circuit breaker -------------------------- *)
\* number of execute calls made on the breaker
MaxCalls == 3
\* largest failureThreshold and recoveryTimeout (in ticks) passed to the constructor
MaxThreshold == 2
MaxRecoveryTimeout == 2
\* number of ticks of the clock
MaxTicks == 2

\* Date.now() when the program starts: far from the epoch
StartTime == MaxRecoveryTimeout + 1

CircuitOpenMessage == "Circuit breaker is OPEN"

\* field initialisers of class CircuitBreaker
NoBreaker ==
    [created |-> FALSE, failureCount |-> 0, lastFailureTime |-> 0, state |-> "CLOSED",
     failureThreshold |-> 5, recoveryTimeout |-> 60000]

\* variant: the counter survives a success
onSuccessKeepsCount(b) == [b EXCEPT !.state = "CLOSED"]

\* CircuitBreaker.onSuccess
onSuccess(b) == [b EXCEPT !.failureCount = 0, !.state = "CLOSED"]

\* variant: opens one failure late
onFailureOpensLate(b, t) ==
    LET count == b.failureCount + 1
    IN  [b EXCEPT !.failureCount = count, !.lastFailureTime = t,
                  !.state = IF count > b.failureThreshold THEN "OPEN" ELSE b.state]

\* CircuitBreaker.onFailure at time t
onFailure(b, t) ==
    LET count == b.failureCount + 1
    IN  [b EXCEPT !.failureCount = count, !.lastFailureTime = t,
                  !.state = IF count >= b.failureThreshold THEN "OPEN" ELSE b.state]

\* variant: the recovery timeout counts as elapsed at once
recoveryElapsedAtOnce(b, t) == t - b.lastFailureTime >= 0

\* Date.now() - this.lastFailureTime >= this.recoveryTimeout
recoveryElapsed(b, t) == t - b.lastFailureTime >= b.recoveryTimeout

\* the first statement of execute: "throw", or the state in which the
\* operation is invoked
gate(b, t) ==
    IF b.state = "OPEN"
    THEN IF recoveryElapsed(b, t) THEN "HALF_OPEN" ELSE "throw"
    ELSE b.state

BreakerInit ==
    /\ breaker = NoBreaker
    /\ calls = <<>>
    /\ streak = 0

(* ------------------------ tracker used on its own --------------------- *)
\* largest totalRequests passed to updateProgress
MaxTotal == 1
\* number of calls made on the tracker
MaxTrackerCalls == 4
\* number of getState() calls, and of state updates of the agent
MaxGetState == 2
MaxStateUpdates == 2

\* the state literal of the constructor and of reset(); errors: [] is the
\* array with reference ref
freshTrackerState(ref) == [initialWorkflowState(0) EXCEPT !.errors = ref]

\* the contents of an object whose errors field is a reference
Deref(obj) == [obj EXCEPT !.errors = arrays[obj.errors]]

\* the Partial<WorkflowState> values passed to updateProgress
TrackerUpdates ==
    UNION {{[totalRequests |-> n, completedRequests |-> m] : m \in 0..n} :
             n \in 0..MaxTotal}

\* the updates the executor passes to updateWorkflowState
StateUpdates(ws) ==
    {[step |-> "scraping", currentRequestIndex |-> ws.completedRequests],
     [step |-> "complete"],
     [completedRequests |-> ws.completedRequests + 1,
      imagesCollected |-> ws.imagesCollected + 1],
     [completedRequests |-> ws.completedRequests + 1,
      errors |-> Append(ws.errors, [step |-> "scraping", message |-> "timeout",
                                    requestId |-> uuidv4("error", ws.completedRequests)])]}

TrackerInit ==
    /\ tracker = freshTrackerState(1)
    /\ arrays = << <<>> >>
    /\ snapshots = <<>>
    /\ trackerCalls = 0
    /\ observed = <<>>

(* --------------------- progress manager and formatters ---------------- *)
\* number of firings of the manager's interval
MaxFires == 2

\* Math.round((completed / total) * 100), or 0
percentage(state) ==
    IF state.totalRequests > 0
    THEN (200 * state.completedRequests + state.totalRequests)
            \div (2 * state.totalRequests)
    ELSE 0

\* state.eta || 'Calculando...'
timeRemaining(state) == IF state.eta = "undefined" THEN "Calculando..." ELSE state.eta

\* ConsoleProgressFormatterImpl.format at time t: the values the line shows
consoleFormat(state, t) ==
    <<percentage(state), state.completedRequests, state.totalRequests,
      state.imagesCollected, state.compositionsCreated, t - state.startTime,
      timeRemaining(state)>>

\* DetailedProgressFormatterImpl.format at time t: the values the lines show
detailedFormat(state, t) ==
    <<state.step, state.completedRequests, state.totalRequests,
      state.imagesCollected, state.compositionsCreated, t - state.startTime,
      timeRemaining(state), state.currentRequest,
      SubSeq(state.errors, Max(1, Len(state.errors) - 2), Len(state.errors))>>

\* formatter.format(state)
format(mgr, state, t) ==
    IF mgr.formatter = "console" THEN consoleFormat(state, t) ELSE detailedFormat(state, t)

\* what formatter.update(state) writes at time t: "text" is the rendered
\* text, "newline" the '\n' of a complete state, "clear" console.clear()
written(mgr, state, t) ==
    IF mgr.formatter = "console"
    THEN (IF consoleFormat(state, t) # mgr.lastOutput THEN <<"text">> ELSE <<>>)
         \o (IF state.completedRequests >= state.totalRequests /\ state.totalRequests > 0
             THEN <<"newline">> ELSE <<>>)
    ELSE <<"clear", "text">>

\* formatter.update(state) at time t: the manager afterwards
formatterUpdate(mgr, state, t) ==
    IF mgr.formatter = "console"
    THEN [mgr EXCEPT !.lastOutput = consoleFormat(state, t)]
    ELSE mgr

\* the entry of the log for a formatter.update call made by caller
Render(mgr, state, t, caller) ==
    [text |-> format(mgr, state, t), written |-> written(mgr, state, t), by |-> caller]

\* the WorkflowState literal with its startTime: new Date() at time t
stateStartedAt(total, t) ==
    [f \in DOMAIN initialWorkflowState(total) \cup {"startTime"} |->
        IF f = "startTime" THEN t ELSE initialWorkflowState(total)[f]]

NoManager ==
    [created |-> FALSE, formatter |-> "console", lastOutput |-> <<>>,
     interval |-> FALSE, isActive |-> FALSE, tracker |-> stateStartedAt(0, 0)]

ReporterInit ==
    /\ manager = NoManager
    /\ renders = <<>>
    /\ phase = [cancelled |-> FALSE, ended |-> FALSE, fires |-> 0]

(* -------------------- MultiWorkflowProgressManager -------------------- *)
\* number of ProgressManager objects created through createWorkflow
MaxManagers == 2
\* number of calls made on the multi-manager and on its managers
MaxMultiCalls == 5

\* the identifiers passed to createWorkflow, getWorkflow and removeWorkflow
WorkflowIds == {"a", "b"}

\* this.managers.has(id)
hasWorkflow(map, id) == \E k \in 1..Len(map) : map[k].id = id

\* this.managers.get(id): the reference of the manager, 0 for undefined
getWorkflow(map, id) ==
    IF hasWorkflow(map, id)
    THEN map[CHOOSE k \in 1..Len(map) : map[k].id = id].obj
    ELSE 0

\* this.managers.set(id, obj): an entry already there keeps its place
mapSet(map, id, obj) ==
    IF hasWorkflow(map, id)
    THEN [k \in 1..Len(map) |-> IF map[k].id = id THEN [id |-> id, obj |-> obj]
                                                    ELSE map[k]]
    ELSE Append(map, [id |-> id, obj |-> obj])

\* this.managers.delete(id)
mapDelete(map, id) == SelectSeq(map, LAMBDA e : e.id # id)

\* variant: the error entries are left out of the summary
contributionWithoutErrors(progress) ==
    [total |-> progress.totalRequests, completed |-> progress.completedRequests,
     errors |-> 0]

\* what one manager's progress adds in the loop of getCombinedProgress
contribution(progress) ==
    [total |-> progress.totalRequests, completed |-> progress.completedRequests,
     errors |-> Len(progress.errors)]

RECURSIVE combinedFrom(_, _, _)
\* the loop of getCombinedProgress over this.managers.values(), from
\* accumulator acc
combinedFrom(map, objs, acc) ==
    IF map = <<>> THEN acc
    ELSE LET c == contribution(objs[map[1].obj].tracker)
         IN  combinedFrom(Tail(map), objs,
                          [total |-> acc.total + c.total,
                           completed |-> acc.completed + c.completed,
                           errors |-> acc.errors + c.errors,
                           workflows |-> acc.workflows])

\* MultiWorkflowProgressManager.getCombinedProgress()
getCombinedProgress(map, objs) ==
    combinedFrom(map, objs,
                 [total |-> 0, completed |-> 0, errors |-> 0, workflows |-> Len(map)])

NoReturn == [op |-> "none", value |-> Undefined, call |-> 0]

MultiInit ==
    /\ managers = <<>>
    /\ objects = <<>>
    /\ returned = NoReturn
    /\ multiCalls = 0

\* number of requests of a batch when two calls share the process
MaxRunRequests == 2

\* no run has met another one or a cancel() yet
NoHist == [alone |-> TRUE, cancelled |-> FALSE]

\* a generator that was never obtained
IdleRun ==
    [batch |-> NoBatch, pc |-> "idle", i |-> 0, reqs |-> <<>>, emitted |-> <<>>,
     runEnd |-> "none", hist |-> NoHist]

CallInit ==
    /\ single = FALSE
    /\ other = IdleRun
    /\ hist = NoHist

Init ==
    /\ now = StartTime
    /\ CallInit
    /\ BreakerInit
    /\ TrackerInit
    /\ ReporterInit
    /\ MultiInit
    /\ workflowState = initialWorkflowState(0)
    /\ progressManager = NoProgressManager
    /\ isCancelled = FALSE
    /\ onProgress \in BOOLEAN
    /\ batch = NoBatch
    /\ pc = "idle"
    /\ i = 0
    /\ reqs = <<>>
    /\ emitted = <<>>
    /\ runEnd = "none"
    /\ RetryInit

\* agent.processBatch(batch): returns the generator, not yet started
processBatchCall(K, par, M) ==
    /\ pc = "idle"
    /\ batch' = [requests |-> [k \in 1..K |-> k], parallelProcessing |-> par,
                 maxConcurrent |-> M]
    /\ progressManager' =
          IF onProgress
          THEN pmStart(NewProgressManager, initialWorkflowState(K))
          ELSE progressManager
    /\ workflowState' = initialWorkflowState(K)
    /\ reqs' = [k \in 1..K |-> PendingRequest]
    /\ i' = 0
    /\ emitted' = <<>>
    /\ runEnd' = "none"
    /\ pc' = "start"
    /\ UNCHANGED <<isCancelled, onProgress>>

\* agent.processBatch(batch) on an agent that runs nothing else
processBatch(K, par, M) ==
    /\ processBatchCall(K, par, M)
    /\ UNCHANGED nonExecVars

\* variant: the request is put twice into the batch
singleBatchTwice(request) ==
    [requests |-> <<request, request + 1>>, parallelProcessing |-> FALSE,
     maxConcurrent |-> 1]

\* the batchRequest that processSingle builds
singleBatch(request) ==
    [requests |-> <<request>>, parallelProcessing |-> FALSE, maxConcurrent |-> 1]

\* agent.processSingle(request): processBatch on the one-element batch; the
\* generator returned yields the results of every batch one by one
processSingle(request) ==
    /\ LET batchRequest == singleBatch(request)
       IN  processBatchCall(Len(batchRequest.requests), batchRequest.parallelProcessing,
                            batchRequest.maxConcurrent)
    /\ single' = TRUE
    /\ UNCHANGED <<other, hist>>
    /\ UNCHANGED nonAgentVars

\* agent.cancel(): the body
cancelCall ==
    /\ isCancelled' = TRUE
    /\ progressManager' = stopIfPresent(progressManager)
    /\ UNCHANGED <<workflowState, onProgress, batch, pc, i, reqs, emitted, runEnd>>

\* agent.cancel()
cancel ==
    /\ cancelCall
    /\ UNCHANGED nonExecVars

(* ------------------------- processRequest ----------------------------- *)
\* simulateCompositions(images, prompt).length
simulateCompositions(images) == IF images = 0 THEN 0 ELSE 1

\* processRequest up to its first suspension: requestId = uuidv4() and
\* updateWorkflowState({ step: 'scraping', currentRequest: request.url })
processRequestStart(h, url) ==
    updateWorkflowState(h, [step |-> "scraping", currentRequest |-> url])

\* the promise of a processRequest call that has just started
RunningRequest(url) ==
    [PendingRequest EXCEPT !.st = "running",
                           !.requestId = uuidv4("processRequest", url)]

\* the ProcessingResult returned by processRequest
successResult(url, req) ==
    [requestId |-> req.requestId, url |-> url, status |-> "success",
     capturedImages |-> req.capturedImages, compositions |-> req.compositions,
     errors |-> <<>>]

\* variant: the error message is dropped from the result
errorResultWithoutMessage(url, message) ==
    [requestId |-> uuidv4("catch", url), url |-> url, status |-> "error",
     capturedImages |-> 0, compositions |-> 0, errors |-> <<>>]

\* the ProcessingResult built in the catch of processSequential and in the
\* .catch of processParallel
errorResult(url, message) ==
    [requestId |-> uuidv4("catch", url), url |-> url, status |-> "error",
     capturedImages |-> 0, compositions |-> 0, errors |-> <<message>>]

\* what awaiting the promise of request url gives its caller's handler
resultOf(url) ==
    IF reqs[url].st = "resolved" THEN successResult(url, reqs[url])
    ELSE errorResult(url, reqs[url].error)

Settled(url) == reqs[url].st \in {"resolved", "rejected"}
InFlight == {url \in DOMAIN reqs : reqs[url].st = "running"}

\* the query stream of request url ends: processRequest sets step 'complete'
\* and returns; images is the length of capturedImages at that moment
Resolve(url, images) ==
    /\ pc = "await"
    /\ url \in InFlight
    /\ LET h == updateWorkflowState([ws |-> workflowState, pm |-> progressManager],
                                    [step |-> "complete"])
       IN  /\ workflowState' = h.ws
           /\ progressManager' = h.pm
    /\ reqs' = [reqs EXCEPT ![url] =
                  [@ EXCEPT !.st = "resolved", !.capturedImages = images,
                            !.compositions = simulateCompositions(images)]]
    /\ UNCHANGED <<isCancelled, onProgress, batch, pc, i, emitted, runEnd>>
    /\ UNCHANGED nonExecVars

\* the query stream of request url raises an error: processRequest rethrows it
Reject(url, message) ==
    /\ pc = "await"
    /\ url \in InFlight
    /\ reqs' = [reqs EXCEPT ![url] = [@ EXCEPT !.st = "rejected", !.error = message]]
    /\ UNCHANGED <<workflowState, progressManager, isCancelled, onProgress, batch,
                   pc, i, emitted, runEnd>>
    /\ UNCHANGED nonExecVars

\* variant: processRequest throws on a message whatever the flag says
throwsOnAnyMessage(cancelled) == TRUE

\* whether processRequest throws on the message it has just received
throwsOnMessage(cancelled) == cancelled

\* a message of the query stream reaches request url; a message that finds
\* the flag clear only changes locals of processRequest, whose final value
\* Resolve chooses
Message(url) ==
    /\ pc = "await"
    /\ url \in InFlight
    /\ throwsOnMessage(isCancelled)
    /\ reqs' = [reqs EXCEPT ![url] =
                  [@ EXCEPT !.st = "rejected", !.error = CancelMessage]]
    /\ UNCHANGED <<workflowState, progressManager, isCancelled, onProgress, batch,
                   pc, i, emitted, runEnd>>
    /\ UNCHANGED nonExecVars

(* ------------------------- processSequential -------------------------- *)
\* variant: the loop stops one request early
sequentialStartsOffByOne(idx, n, cancelled) == idx + 1 < n /\ ~cancelled

\* for (let i = 0; i < requests.length; i++) { if (isCancelled) break; ... }
sequentialStarts(idx, n, cancelled) == idx < n /\ ~cancelled

\* variant: a successful request is counted twice
sequentialSuccessUpdateTwice(ws, result) ==
    [completedRequests |-> ws.completedRequests + 2,
     imagesCollected |-> ws.imagesCollected + result.capturedImages,
     compositionsCreated |-> ws.compositionsCreated + result.compositions]

\* statistics update after a successful request
sequentialSuccessUpdate(ws, result) ==
    [completedRequests |-> ws.completedRequests + 1,
     imagesCollected |-> ws.imagesCollected + result.capturedImages,
     compositionsCreated |-> ws.compositionsCreated + result.compositions]

\* variant: a failed request is not counted as completed
sequentialErrorUpdateUncounted(ws, result, message) ==
    [completedRequests |-> ws.completedRequests,
     errors |-> Append(ws.errors,
                       [step |-> "scraping", message |-> message,
                        requestId |-> result.requestId])]

\* state update in the catch block
sequentialErrorUpdate(ws, result, message) ==
    [completedRequests |-> ws.completedRequests + 1,
     errors |-> Append(ws.errors,
                       [step |-> "scraping", message |-> message,
                        requestId |-> result.requestId])]

\* variant: the final step update is left out
FinishWithoutComplete(h, idx, how) ==
    /\ workflowState' = h.ws
    /\ progressManager' = stopIfPresent(h.pm)
    /\ pc' = "done"
    /\ i' = idx
    /\ runEnd' = how
    /\ UNCHANGED reqs

\* the generator ends: step 'complete' at the end of processSequential or
\* processParallel, then the finally of executeBatchProcessing
Finish(h, idx, how) ==
    LET h1 == updateWorkflowState(h, [step |-> "complete"])
    IN  /\ workflowState' = h1.ws
        /\ progressManager' = stopIfPresent(h1.pm)
        /\ pc' = "done"
        /\ i' = idx
        /\ runEnd' = how
        /\ UNCHANGED reqs

\* one pass through the head of the loop of processSequential, from state h
SequentialLoop(h, idx) ==
    LET n == Len(batch.requests) IN
    IF sequentialStarts(idx, n, isCancelled)
    THEN LET url == batch.requests[idx + 1]
             h1 == updateWorkflowState(h, [step |-> "scraping",
                                           currentRequestIndex |-> idx,
                                           currentRequest |-> url])
             h2 == processRequestStart(h1, url)
         IN  /\ workflowState' = h2.ws
             /\ progressManager' = h2.pm
             /\ reqs' = [reqs EXCEPT ![url] = RunningRequest(url)]
             /\ pc' = "await"
             /\ i' = idx
             /\ UNCHANGED runEnd
    ELSE Finish(h, idx, IF idx < n THEN "cancelled" ELSE "complete")

\* the awaited processRequest of processSequential has settled: yield [result],
\* or catch, update the state and yield [errorResult]
SequentialSettled ==
    /\ pc = "await"
    /\ ~batch.parallelProcessing
    /\ Settled(i + 1)
    /\ LET url == i + 1
           result == resultOf(url)
       IN  IF reqs[url].st = "resolved"
           THEN /\ pc' = "yieldResult"
                /\ UNCHANGED <<workflowState, progressManager>>
                /\ emitted' = Append(emitted, <<result>>)
           ELSE LET h == updateWorkflowState(
                            [ws |-> workflowState, pm |-> progressManager],
                            sequentialErrorUpdate(workflowState, result,
                                                  reqs[url].error))
                IN  /\ workflowState' = h.ws
                    /\ progressManager' = h.pm
                    /\ pc' = "yieldError"
                    /\ emitted' = Append(emitted, <<result>>)
    /\ UNCHANGED <<isCancelled, onProgress, batch, i, reqs, runEnd>>
    /\ UNCHANGED nonExecVars

(* -------------------------- processParallel --------------------------- *)
\* const maxConcurrent = Math.min(requests.length, 3)
parallelMaxConcurrent(n, requested) == Min(n, ParallelLimit)

\* for (i = 0; i < requests.length; i += maxConcurrent) chunks.push(slice(i, i + maxConcurrent))
chunksOf(n, requested) ==
    LET m == parallelMaxConcurrent(n, requested)
        count == (n + m - 1) \div m
    IN  [c \in 1..count |-> [j \in 1..Min(m, n - (c - 1) * m) |-> (c - 1) * m + j]]

\* variant: the flag is not checked between chunks
parallelStartsIgnoringCancel(c, count, cancelled) == c < count

\* for (const chunk of chunks) { if (isCancelled) break; ... }
parallelStarts(c, count, cancelled) == c < count /\ ~cancelled

RECURSIVE StartAll(_, _)
\* chunk.map(request => processRequest(...)): every call runs to its first await
StartAll(h, chunk) ==
    IF chunk = <<>> THEN h
    ELSE StartAll(processRequestStart(h, chunk[1]), Tail(chunk))

\* variant: a chunk is counted as one completed request
parallelChunkUpdateCountsOne(ws, chunkResults) ==
    [completedRequests |-> ws.completedRequests + 1,
     imagesCollected |-> ws.imagesCollected + SumOver(chunkResults, "capturedImages"),
     compositionsCreated |-> ws.compositionsCreated + SumOver(chunkResults, "compositions")]

\* statistics update after a chunk
parallelChunkUpdate(ws, chunkResults) ==
    [completedRequests |-> ws.completedRequests + Len(chunkResults),
     imagesCollected |-> ws.imagesCollected + SumOver(chunkResults, "capturedImages"),
     compositionsCreated |-> ws.compositionsCreated + SumOver(chunkResults, "compositions")]

Chunks == chunksOf(Len(batch.requests), batch.maxConcurrent)

\* one pass through the head of the loop of processParallel, from state h
ParallelLoop(h, c) ==
    IF parallelStarts(c, Len(Chunks), isCancelled)
    THEN LET chunk == Chunks[c + 1]
             h1 == StartAll(h, chunk)
         IN  /\ workflowState' = h1.ws
             /\ progressManager' = h1.pm
             /\ reqs' = [url \in DOMAIN reqs |->
                           IF \E j \in DOMAIN chunk : chunk[j] = url
                           THEN RunningRequest(url) ELSE reqs[url]]
             /\ pc' = "await"
             /\ i' = c
             /\ UNCHANGED runEnd
    ELSE Finish(h, c, IF c < Len(Chunks) THEN "cancelled" ELSE "complete")

\* Promise.all(chunkPromises) has settled: update the statistics and yield
ParallelSettled ==
    /\ pc = "await"
    /\ batch.parallelProcessing
    /\ LET chunk == Chunks[i + 1]
           chunkResults == [j \in DOMAIN chunk |-> resultOf(chunk[j])]
           h == updateWorkflowState([ws |-> workflowState, pm |-> progressManager],
                                    parallelChunkUpdate(workflowState, chunkResults))
       IN  /\ \A j \in DOMAIN chunk : Settled(chunk[j])
           /\ workflowState' = h.ws
           /\ progressManager' = h.pm
           /\ emitted' = Append(emitted, chunkResults)
    /\ pc' = "yieldChunk"
    /\ UNCHANGED <<isCancelled, onProgress, batch, i, reqs, runEnd>>
    /\ UNCHANGED nonExecVars

(* ------------------------------ consumer ------------------------------ *)
\* first next() on the generator: executeBatchProcessing runs to its first await
ConsumerStart ==
    /\ pc = "start"
    /\ LET h == [ws |-> workflowState, pm |-> progressManager]
       IN  IF batch.parallelProcessing THEN ParallelLoop(h, 0)
           ELSE SequentialLoop(h, 0)
    /\ UNCHANGED <<isCancelled, onProgress, batch, emitted>>
    /\ UNCHANGED nonExecVars

\* next() after yield [result]: the statistics update, then the next iteration
ConsumerNextAfterResult ==
    /\ pc = "yieldResult"
    /\ LET result == resultOf(i + 1)
           h == updateWorkflowState([ws |-> workflowState, pm |-> progressManager],
                                    sequentialSuccessUpdate(workflowState, result))
       IN  SequentialLoop(h, i + 1)
    /\ UNCHANGED <<isCancelled, onProgress, batch, emitted>>
    /\ UNCHANGED nonExecVars

\* next() after yield [errorResult]: the next iteration
ConsumerNextAfterError ==
    /\ pc = "yieldError"
    /\ SequentialLoop([ws |-> workflowState, pm |-> progressManager], i + 1)
    /\ UNCHANGED <<isCancelled, onProgress, batch, emitted>>
    /\ UNCHANGED nonExecVars

\* next() after yield chunkResults: the next chunk
ConsumerNextAfterChunk ==
    /\ pc = "yieldChunk"
    /\ ParallelLoop([ws |-> workflowState, pm |-> progressManager], i + 1)
    /\ UNCHANGED <<isCancelled, onProgress, batch, emitted>>
    /\ UNCHANGED nonExecVars

\* the consumer leaves its for-await loop: return() on the suspended
\* generator runs only the finally of executeBatchProcessing
ConsumerReturn ==
    /\ pc \in {"yieldResult", "yieldError", "yieldChunk"}
    /\ progressManager' = stopIfPresent(progressManager)
    /\ pc' = "done"
    /\ runEnd' = "returned"
    /\ UNCHANGED <<workflowState, isCancelled, onProgress, batch, i, reqs, emitted>>
    /\ UNCHANGED nonExecVars


\* an error that is not a per-request failure reaches the catch of
\* executeBatchProcessing: the consumer resumes the generator with throw() at
\* yield [errorResult] or at yield chunkResults, which no per-request try
\* encloses; the catch only logs, then the finally runs
RunLevelFault ==
    /\ pc \in {"yieldError", "yieldChunk"}
    /\ progressManager' = stopIfPresent(progressManager)
    /\ pc' = "done"
    /\ runEnd' = "fault"
    /\ UNCHANGED <<workflowState, isCancelled, onProgress, batch, i, reqs, emitted>>
    /\ UNCHANGED nonExecVars

Next ==
    \/ \E K \in 1..MaxRequests, par \in BOOLEAN, M \in 1..MaxConcurrentArg :
          processBatch(K, par, M)
    \/ processSingle(1)
    \/ cancel
    \/ ConsumerStart
    \/ \E url \in 1..MaxRequests, images \in 0..MaxSimulatedImages : Resolve(url, images)
    \/ \E url \in 1..MaxRequests, message \in QueryErrors : Reject(url, message)
    \/ \E url \in 1..MaxRequests : Message(url)
    \/ SequentialSettled
    \/ ParallelSettled
    \/ ConsumerNextAfterResult
    \/ ConsumerNextAfterError
    \/ ConsumerNextAfterChunk
    \/ ConsumerReturn
    \/ RunLevelFault

Spec == Init /\ [][Next]_vars

(* ------------------- two processBatch calls in one process ------------ *)
\* whether a generator has been obtained and has not ended
Active(p) == p \notin {"idle", "done"}

\* agent.processBatch(batch) with K requests, processed sequentially, while
\* the generator of another call may be suspended
runProcessBatch(K) ==
    /\ processBatchCall(K, FALSE, 1)
    /\ hist' = [alone |-> ~Active(other.pc), cancelled |-> FALSE]
    /\ other' = IF Active(other.pc) THEN [other EXCEPT !.hist.alone = FALSE] ELSE other
    /\ UNCHANGED single
    /\ UNCHANGED nonAgentVars

\* agent.cancel() while a run goes on
runCancel ==
    /\ Active(pc) \/ Active(other.pc)
    /\ cancelCall
    /\ hist' = IF Active(pc) THEN [hist EXCEPT !.cancelled = TRUE] ELSE hist
    /\ other' = IF Active(other.pc) THEN [other EXCEPT !.hist.cancelled = TRUE]
                ELSE other
    /\ UNCHANGED single
    /\ UNCHANGED nonAgentVars

\* the event loop turns to the other generator: what is local to a
\* generator is exchanged, what the module holds (workflowState,
\* progressManager, isCancelled) stays
Switch ==
    /\ other' = [batch |-> batch, pc |-> pc, i |-> i, reqs |-> reqs,
                 emitted |-> emitted, runEnd |-> runEnd, hist |-> hist]
    /\ batch' = other.batch
    /\ pc' = other.pc
    /\ i' = other.i
    /\ reqs' = other.reqs
    /\ emitted' = other.emitted
    /\ runEnd' = other.runEnd
    /\ hist' = other.hist
    /\ UNCHANGED <<workflowState, progressManager, isCancelled, onProgress, single>>
    /\ UNCHANGED nonAgentVars

RunsNext ==
    \/ \E K \in 1..MaxRunRequests : runProcessBatch(K)
    \/ runCancel
    \/ Switch
    \/ ConsumerStart
    \/ \E url \in 1..MaxRunRequests : Resolve(url, 1)
    \/ \E url \in 1..MaxRunRequests, message \in QueryErrors : Reject(url, message)
    \/ \E url \in 1..MaxRunRequests : Message(url)
    \/ SequentialSettled
    \/ ConsumerNextAfterResult
    \/ ConsumerNextAfterError

SpecRuns == Init /\ [][RunsNext]_vars

(* --------------------------- retryWithStrategy ------------------------ *)
\* for (let attempt = 1; attempt <= strategyConfig.maxAttempts; attempt++)
retryLoopContinues(att, moduleConfig, strat) == att <= moduleConfig.maxAttempts

\* variant: the sleep and onRetry also after the last pass of the loop
sleepsBeforeNextAlways(att, moduleConfig, strat) == att <= moduleConfig.maxAttempts

\* if (attempt < strategyConfig.maxAttempts) { ... await sleep(delay) }
sleepsBeforeNext(att, moduleConfig, strat) == att < moduleConfig.maxAttempts

\* setRetryConfig({ maxAttempts: n })
setRetryConfig(n) ==
    /\ rpc = "idle"
    /\ strategyConfig' = Merge(strategyConfig, [maxAttempts |-> n])
    /\ UNCHANGED <<strategy, rpc, attempt, lastError, opCalls, slept, hooks, outcome>>
    /\ UNCHANGED nonRetryVars

\* retryWithStrategy(operation, strat) up to its first await: the loop is
\* entered (maxAttempts >= 1) and operation() is invoked
retryWithStrategy(strat) ==
    /\ rpc = "idle"
    /\ strategy' = strat
    /\ attempt' = 1
    /\ opCalls' = opCalls + 1
    /\ rpc' = "operation"
    /\ UNCHANGED <<strategyConfig, lastError, slept, hooks, outcome>>
    /\ UNCHANGED nonRetryVars

\* retryWithBackoff(operation, config)
retryWithBackoff(config) ==
    retryWithStrategy([kind |-> "exponential", config |-> config])

\* retryWithFixedDelay(operation, config)
retryWithFixedDelay(config) ==
    retryWithStrategy([kind |-> "fixed", config |-> config])

HookCall(hook, att, error, delay) ==
    [hook |-> hook, attempt |-> att, error |-> error, delay |-> delay]

\* the awaited operation() resolves: onSuccess(attempt), return result
OperationResolves ==
    /\ rpc = "operation"
    /\ hooks' = Append(hooks, HookCall("onSuccess", attempt, NoError, 0))
    /\ outcome' = [kind |-> "returned", attempts |-> 0, error |-> NoError]
    /\ rpc' = "done"
    /\ UNCHANGED <<strategyConfig, strategy, attempt, lastError, opCalls, slept>>
    /\ UNCHANGED nonRetryVars

\* attempt++ and the loop condition: operation() again, or the code after the
\* loop: onFailure(maxAttempts, lastError); throw new RetryExhaustedError(...)
NextAttempt(error) ==
    IF retryLoopContinues(attempt + 1, strategyConfig, strategy)
    THEN /\ attempt' = attempt + 1
         /\ opCalls' = opCalls + 1
         /\ rpc' = "operation"
         /\ UNCHANGED <<hooks, outcome>>
    ELSE /\ hooks' = Append(hooks, HookCall("onFailure", strategyConfig.maxAttempts,
                                              error, 0))
         /\ outcome' = [kind |-> "exhausted",
                        attempts |-> strategyConfig.maxAttempts, error |-> error]
         /\ rpc' = "done"
         /\ UNCHANGED <<attempt, opCalls>>

\* the awaited operation() rejects with error: the catch block, up to the
\* throw, the sleep or, without a sleep, the next pass of the loop
OperationRejects(error, rnd) ==
    /\ rpc = "operation"
    /\ lastError' = error
    /\ IF ~shouldRetry(strategy, attempt, error)
       THEN \* onFailure(attempt, lastError); throw lastError
            /\ hooks' = Append(hooks, HookCall("onFailure", attempt, error, 0))
            /\ outcome' = [kind |-> "error", attempts |-> 0, error |-> error]
            /\ rpc' = "done"
            /\ UNCHANGED <<attempt, opCalls, slept>>
       ELSE IF sleepsBeforeNext(attempt, strategyConfig, strategy)
       THEN \* getDelay, onRetry, await sleep(delay)
            LET delay == getDelay(strategy, attempt, rnd)
            IN  /\ hooks' = Append(hooks, HookCall("onRetry", attempt, error, delay))
                /\ slept' = Append(slept, delay)
                /\ rpc' = "sleep"
                /\ UNCHANGED <<attempt, opCalls, outcome>>
       ELSE /\ NextAttempt(error)
            /\ UNCHANGED slept
    /\ UNCHANGED <<strategyConfig, strategy>>
    /\ UNCHANGED nonRetryVars

\* sleep(delay) is over: the next pass of the loop
SleepEnds ==
    /\ rpc = "sleep"
    /\ NextAttempt(lastError)
    /\ UNCHANGED <<strategyConfig, strategy, lastError, slept>>
    /\ UNCHANGED nonRetryVars

RetryNext ==
    \/ \E n \in 1..MaxAttemptsArg : setRetryConfig(n)
    \/ \E config \in RetryConfigs : retryWithBackoff(config)
    \/ \E config \in RetryConfigs : retryWithFixedDelay(config)
    \/ OperationResolves
    \/ \E error \in ErrorMessages, rnd \in 0..(RandomSteps - 1) :
          OperationRejects(error, rnd)
    \/ SleepEnds

SpecRetry == Init /\ [][RetryNext]_vars

(* --------------------------- CircuitBreaker --------------------------- *)
\* the clock advances
Tick ==
    /\ now < StartTime + MaxTicks
    /\ now' = now + 1
    /\ UNCHANGED nonClockVars

\* new CircuitBreaker(failureThreshold, recoveryTimeout)
CircuitBreaker(failureThreshold, recoveryTimeout) ==
    /\ ~breaker.created
    /\ breaker' = [NoBreaker EXCEPT !.created = TRUE,
                                     !.failureThreshold = failureThreshold,
                                     !.recoveryTimeout = recoveryTimeout]
    /\ UNCHANGED <<calls, streak, now>>
    /\ UNCHANGED nonBreakerVars

\* variant: a rejected call counts as a failure at the time of the call
executeRefreshingOnReject ==
    /\ breaker.created
    /\ Len(calls) < MaxCalls
    /\ LET g == gate(breaker, now)
       IN  /\ breaker' = IF g = "throw" THEN [breaker EXCEPT !.lastFailureTime = now]
                                        ELSE [breaker EXCEPT !.state = g]
           /\ calls' = Append(calls,
                  [st |-> IF g = "throw" THEN "rejected" ELSE "running",
                   invoked |-> g # "throw",
                   error |-> IF g = "throw" THEN CircuitOpenMessage ELSE "none",
                   stateAtCall |-> breaker.state,
                   sinceFailure |-> now - breaker.lastFailureTime])
    /\ UNCHANGED <<streak, now>>
    /\ UNCHANGED nonBreakerVars

\* execute(operation) up to its throw or its await: the gate, then operation()
execute ==
    /\ breaker.created
    /\ Len(calls) < MaxCalls
    /\ LET g == gate(breaker, now)
       IN  /\ breaker' = IF g = "throw" THEN breaker ELSE [breaker EXCEPT !.state = g]
           /\ calls' = Append(calls,
                  [st |-> IF g = "throw" THEN "rejected" ELSE "running",
                   invoked |-> g # "throw",
                   error |-> IF g = "throw" THEN CircuitOpenMessage ELSE "none",
                   stateAtCall |-> breaker.state,
                   sinceFailure |-> now - breaker.lastFailureTime])
    /\ UNCHANGED <<streak, now>>
    /\ UNCHANGED nonBreakerVars

\* the awaited operation() of call k resolves: onSuccess(), return result
BreakerOperationResolves(k) ==
    /\ calls[k].st = "running"
    /\ breaker' = onSuccess(breaker)
    /\ calls' = [calls EXCEPT ![k].st = "ok"]
    /\ streak' = 0
    /\ UNCHANGED now
    /\ UNCHANGED nonBreakerVars

\* the awaited operation() of call k rejects: onFailure(), throw error
BreakerOperationRejects(k) ==
    /\ calls[k].st = "running"
    /\ breaker' = onFailure(breaker, now)
    /\ calls' = [calls EXCEPT ![k].st = "failed", ![k].error = "operation"]
    /\ streak' = streak + 1
    /\ UNCHANGED now
    /\ UNCHANGED nonBreakerVars

\* variant: reset() closes the breaker and keeps the counter
breakerResetKeepsCount ==
    /\ breaker.created
    /\ breaker' = [breaker EXCEPT !.state = "CLOSED"]
    /\ streak' = 0
    /\ UNCHANGED <<calls, now>>
    /\ UNCHANGED nonBreakerVars

\* CircuitBreaker.reset()
breakerReset ==
    /\ breaker.created
    /\ breaker' = [breaker EXCEPT !.failureCount = 0, !.state = "CLOSED"]
    /\ streak' = 0
    /\ UNCHANGED <<calls, now>>
    /\ UNCHANGED nonBreakerVars

BreakerNext ==
    \/ \E n \in 1..MaxThreshold, t \in 1..MaxRecoveryTimeout : CircuitBreaker(n, t)
    \/ execute
    \/ \E k \in 1..Len(calls) : BreakerOperationResolves(k)
    \/ \E k \in 1..Len(calls) : BreakerOperationRejects(k)
    \/ breakerReset
    \/ Tick

SpecBreaker == Init /\ [][BreakerNext]_vars

(* ------------------- ProgressTrackerImpl and getState ----------------- *)
\* tracker.updateProgress(updates)
updateProgress(updates) ==
    /\ trackerCalls < MaxTrackerCalls
    /\ trackerCalls' = trackerCalls + 1
    /\ tracker' = trackerUpdateProgress(tracker, updates)
    /\ UNCHANGED <<arrays, snapshots, observed>>
    /\ UNCHANGED nonTrackerVars

\* tracker.addError(error, step): this.state.errors.push(errorEntry)
addError(error, step) ==
    /\ trackerCalls < MaxTrackerCalls
    /\ trackerCalls' = trackerCalls + 1
    /\ arrays' = [arrays EXCEPT ![tracker.errors] =
                     Append(@, [step |-> IF step = "none" THEN tracker.step ELSE step,
                                message |-> error, requestId |-> Undefined])]
    /\ UNCHANGED <<tracker, snapshots, observed>>
    /\ UNCHANGED nonTrackerVars

\* tracker.reset()
trackerReset ==
    /\ trackerCalls < MaxTrackerCalls
    /\ trackerCalls' = trackerCalls + 1
    /\ arrays' = Append(arrays, <<>>)
    /\ tracker' = freshTrackerState(Len(arrays) + 1)
    /\ UNCHANGED <<snapshots, observed>>
    /\ UNCHANGED nonTrackerVars

\* tracker.getProgress(): { ...this.state }, the same errors array
getProgress ==
    /\ trackerCalls < MaxTrackerCalls
    /\ trackerCalls' = trackerCalls + 1
    /\ snapshots' = Append(snapshots, [snap |-> tracker, seen |-> Deref(tracker)])
    /\ UNCHANGED <<tracker, arrays, observed>>
    /\ UNCHANGED nonTrackerVars

\* updateWorkflowState(updates), called by the executor
StateUpdate(updates) ==
    /\ workflowState.completedRequests < MaxStateUpdates
    /\ LET h == updateWorkflowState([ws |-> workflowState, pm |-> progressManager],
                                    updates)
       IN  /\ workflowState' = h.ws
           /\ progressManager' = h.pm
    /\ observed' = IF observed # <<>> /\ observed[Len(observed)].op = "getState"
                   THEN Append(observed, [op |-> "update", value |-> Undefined])
                   ELSE observed
    /\ UNCHANGED <<tracker, arrays, snapshots, trackerCalls>>
    /\ UNCHANGED <<nonStateVars, retryVars, now, breakerVars, reporterVars, multiVars,
                   callVars>>

\* agent.getState(), called by the consumer
GetState ==
    /\ Len(SelectSeq(observed, LAMBDA o : o.op = "getState")) < MaxGetState
    /\ observed' = Append(observed, [op |-> "getState", value |-> getState])
    /\ UNCHANGED <<tracker, arrays, snapshots, trackerCalls>>
    /\ UNCHANGED nonTrackerVars

TrackerNext ==
    \/ \E updates \in TrackerUpdates : updateProgress(updates)
    \/ \E error \in {"timeout"}, step \in {"none", "scraping"} : addError(error, step)
    \/ trackerReset
    \/ getProgress

SpecTracker == Init /\ [][TrackerNext]_vars

StateNext ==
    \/ \E updates \in StateUpdates(workflowState) : StateUpdate(updates)
    \/ GetState

SpecState == Init /\ [][StateNext]_vars

(* --------------------------- ProgressManager -------------------------- *)
\* processBatch with a progress callback: the manager is created with the
\* given formatter and started with the initial state of a batch of total
\* requests (start: first update at once, interval set)
managerStart(formatter, total) ==
    /\ ~manager.created
    /\ LET state == trackerUpdateProgress(stateStartedAt(0, now),
                                          stateStartedAt(total, now))
           mgr == [NoManager EXCEPT !.created = TRUE, !.formatter = formatter,
                                    !.isActive = TRUE, !.interval = TRUE,
                                    !.tracker = state]
       IN  /\ manager' = formatterUpdate(mgr, state, now)
           /\ renders' = Append(renders, Render(mgr, state, now, "start"))
    /\ UNCHANGED <<phase, now>>
    /\ UNCHANGED nonReporterVars

\* the callback of setInterval: formatter.update(tracker.getProgress())
IntervalFires ==
    /\ manager.interval
    /\ phase.fires < MaxFires
    /\ manager' = formatterUpdate(manager, manager.tracker, now)
    /\ renders' = Append(renders, Render(manager, manager.tracker, now, "interval"))
    /\ phase' = [phase EXCEPT !.fires = @ + 1]
    /\ UNCHANGED now
    /\ UNCHANGED nonReporterVars

\* ProgressManager.updateProgress(updates), called by updateWorkflowState
\* while the run goes on: a request has completed
managerUpdateProgress ==
    /\ manager.created
    /\ ~phase.ended
    /\ manager.tracker.completedRequests < manager.tracker.totalRequests
    /\ LET state == trackerUpdateProgress(manager.tracker,
                        [completedRequests |-> manager.tracker.completedRequests + 1,
                         imagesCollected |-> manager.tracker.imagesCollected + 1])
           mgr == [manager EXCEPT !.tracker = state]
       IN  IF manager.isActive
           THEN /\ manager' = mgr
                /\ UNCHANGED renders
           ELSE /\ manager' = formatterUpdate(mgr, state, now)
                /\ renders' = Append(renders, Render(mgr, state, now, "updateProgress"))
    /\ UNCHANGED <<phase, now>>
    /\ UNCHANGED nonReporterVars

\* ProgressManager.stop(), called by caller: the interval is cleared and the
\* final update made
managerStop(caller) ==
    /\ manager' = formatterUpdate([manager EXCEPT !.interval = FALSE, !.isActive = FALSE],
                                  manager.tracker, now)
    /\ renders' = Append(renders, Render(manager, manager.tracker, now, caller))
    /\ UNCHANGED now
    /\ UNCHANGED nonReporterVars

\* agent.cancel(): if (progressManager) progressManager.stop()
managerCancel ==
    /\ manager.created
    /\ ~phase.cancelled
    /\ phase' = [phase EXCEPT !.cancelled = TRUE]
    /\ managerStop("cancel")

\* the finally block of executeBatchProcessing: the run is over
managerRunEnds ==
    /\ manager.created
    /\ ~phase.ended
    /\ phase' = [phase EXCEPT !.ended = TRUE]
    /\ managerStop("finally")

ReporterNext ==
    \/ \E formatter \in {"console", "detailed"}, total \in 1..MaxTotal :
          managerStart(formatter, total)
    \/ IntervalFires
    \/ managerUpdateProgress
    \/ managerCancel
    \/ managerRunEnds
    \/ Tick

SpecReporter == Init /\ [][ReporterNext]_vars

(* -------------------- MultiWorkflowProgressManager -------------------- *)
\* one more call on the multi-manager or on one of its managers
MultiCall ==
    /\ multiCalls < MaxMultiCalls
    /\ multiCalls' = multiCalls + 1

\* createWorkflow(id): a new manager is stored under id and returned
createWorkflow(id) ==
    /\ MultiCall
    /\ Len(objects) < MaxManagers
    /\ objects' = Append(objects, NewProgressManager)
    /\ managers' = mapSet(managers, id, Len(objects) + 1)
    /\ returned' = [op |-> "createWorkflow", value |-> Len(objects) + 1,
                    call |-> multiCalls + 1]
    /\ UNCHANGED nonMultiVars

\* getWorkflow(id).start({ totalRequests: total })
workflowStart(id, total) ==
    /\ MultiCall
    /\ hasWorkflow(managers, id)
    /\ LET o == getWorkflow(managers, id)
       IN  objects' = [objects EXCEPT ![o] = pmStart(@, [totalRequests |-> total])]
    /\ UNCHANGED <<managers, returned>>
    /\ UNCHANGED nonMultiVars

\* getWorkflow(id).updateProgress(...): one more request completed
workflowUpdateProgress(id) ==
    /\ MultiCall
    /\ hasWorkflow(managers, id)
    /\ LET o == getWorkflow(managers, id)
       IN  /\ objects[o].tracker.completedRequests < objects[o].tracker.totalRequests
           /\ objects' = [objects EXCEPT ![o] =
                             pmUpdateProgress(@, [completedRequests |->
                                                     @.tracker.completedRequests + 1])]
    /\ UNCHANGED <<managers, returned>>
    /\ UNCHANGED nonMultiVars

\* getWorkflow(id).addError(error)
workflowAddError(id, error) ==
    /\ MultiCall
    /\ hasWorkflow(managers, id)
    /\ LET o == getWorkflow(managers, id)
       IN  objects' = [objects EXCEPT ![o].tracker.errors =
                         Append(@, [step |-> objects[o].tracker.step, message |-> error,
                                    requestId |-> Undefined])]
    /\ UNCHANGED <<managers, returned>>
    /\ UNCHANGED nonMultiVars

\* removeWorkflow(id)
removeWorkflow(id) ==
    /\ MultiCall
    /\ LET o == getWorkflow(managers, id)
       IN  IF o # 0
           THEN /\ objects' = [objects EXCEPT ![o] = pmStop(@)]
                /\ managers' = mapDelete(managers, id)
                /\ returned' = [op |-> "removeWorkflow", value |-> TRUE,
                                call |-> multiCalls + 1]
           ELSE /\ UNCHANGED <<objects, managers>>
                /\ returned' = [op |-> "removeWorkflow", value |-> FALSE,
                                call |-> multiCalls + 1]
    /\ UNCHANGED nonMultiVars

\* stopAll()
stopAll ==
    /\ MultiCall
    /\ objects' = [o \in 1..Len(objects) |->
                      IF \E k \in 1..Len(managers) : managers[k].obj = o
                      THEN pmStop(objects[o]) ELSE objects[o]]
    /\ UNCHANGED <<managers, returned>>
    /\ UNCHANGED nonMultiVars

\* getCombinedProgress()
combinedProgress ==
    /\ MultiCall
    /\ returned' = [op |-> "getCombinedProgress",
                    value |-> getCombinedProgress(managers, objects),
                    call |-> multiCalls + 1]
    /\ UNCHANGED <<managers, objects>>
    /\ UNCHANGED nonMultiVars

MultiNext ==
    \/ \E id \in WorkflowIds : createWorkflow(id)
    \/ \E id \in WorkflowIds, total \in 1..MaxTotal : workflowStart(id, total)
    \/ \E id \in WorkflowIds : workflowUpdateProgress(id)
    \/ \E id \in WorkflowIds : workflowAddError(id, "timeout")
    \/ \E id \in WorkflowIds : removeWorkflow(id)
    \/ stopAll
    \/ combinedProgress

SpecMulti == Init /\ [][MultiNext]_vars

(* ------------------------------ properties ---------------------------- *)
K == Len(batch.requests)
\* all results handed to the consumer so far, in order
Results == Flatten(emitted)
ResultsFor(url) == {k \in DOMAIN Results : Results[k].url = url}
\* the generator ran to its own end (the consumer did not abandon it)
Drained == pc = "done" /\ runEnd \in {"complete", "cancelled"}
AtYield == pc \in {"yieldResult", "yieldError", "yieldChunk"}

\* every request has exactly one result, an error-status one carrying the
\* message for a request that threw, a success-status one otherwise
EveryRequestOneResult ==
    \A url \in 1..K :
       /\ Cardinality(ResultsFor(url)) = 1
       /\ \A k \in ResultsFor(url) :
             /\ reqs[url].st = "rejected" =>
                   Results[k].status = "error" /\ Results[k].errors = <<reqs[url].error>>
             /\ reqs[url].st = "resolved" => Results[k].status = "success"

\* the three running totals equal what the results handed over so far contain
CountersMatchResults ==
    /\ getState.completedRequests = Len(Results)
    /\ getState.imagesCollected = SumOver(Results, "capturedImages")
    /\ getState.compositionsCreated = SumOver(Results, "compositions")

\* C1: a sequential batch of K requests, never cancelled and drained to its
\* end, has emitted exactly K one-element batches, the k-th carrying the
\* result of the k-th request, and completedRequests = K.
C1_SequentialOrder ==
    (Drained /\ ~batch.parallelProcessing /\ ~isCancelled) =>
        /\ Len(emitted) = K
        /\ \A k \in 1..Len(emitted) :
              /\ Len(emitted[k]) = 1
              /\ emitted[k][1].url = batch.requests[k]
              /\ emitted[k][1] = resultOf(batch.requests[k])
        /\ getState.completedRequests = K

C1_Witness ==
    /\ Drained /\ ~batch.parallelProcessing /\ ~isCancelled
    /\ K >= 3 /\ Len(emitted) = K
    /\ emitted[1][1].status = "error" /\ emitted[2][1].status = "success"

\* C2: a parallel batch of K requests with maxConcurrent = M, never cancelled
\* and drained to its end, has emitted ceil(K/M) groups, each of at most M
\* results, K results in all.
C2_ParallelGroups ==
    (Drained /\ batch.parallelProcessing /\ ~isCancelled) =>
        /\ Len(emitted) = (K + batch.maxConcurrent - 1) \div batch.maxConcurrent
        /\ \A g \in 1..Len(emitted) : Len(emitted[g]) <= batch.maxConcurrent
        /\ Len(Results) = K

\* C3: in parallel mode the number of requests started and not yet finished
\* never exceeds the batch's maxConcurrent.
C3_InFlightBound ==
    batch.parallelProcessing => Cardinality(InFlight) <= batch.maxConcurrent

\* C4: in both modes, a run never cancelled and drained to its end has handed
\* over exactly one result per submitted request: an error-status result
\* carrying the message for a request whose processing threw, and the other
\* requests of the batch have their results all the same.
C4_OneResultPerRequest ==
    (Drained /\ ~isCancelled) => EveryRequestOneResult

C4_Witness ==
    /\ Drained /\ ~isCancelled /\ K >= 3
    /\ reqs[1].st = "rejected" /\ reqs[2].st = "resolved" /\ reqs[K].st = "resolved"
    /\ Len(Results) = K /\ Results[1].errors = <<"timeout">>

\* C5: whenever a result batch is handed to the consumer, completedRequests,
\* imagesCollected and compositionsCreated of getState() equal the number of
\* results emitted so far (that batch included) and the sums over them.
C5_CountersAtYield == AtYield => CountersMatchResults

\* C6: after a run drained to its end, in both modes and for any mix of
\* outcomes, completedRequests, imagesCollected and compositionsCreated equal
\* the number of emitted results and the sums of their capturedImages and
\* compositions.
C6_TotalsAfterRun == Drained => CountersMatchResults

C6_Witness ==
    /\ Drained /\ Len(Results) >= 3
    /\ \E a, b \in DOMAIN Results :
          Results[a].status = "error" /\ Results[b].capturedImages >= 2
    /\ getState.imagesCollected >= 3

\* C7: once cancel() has been called no further request is started: a request
\* still pending while the flag is set stays pending, and no result for a
\* pending request is ever handed to the consumer.
C7_NoStartAfterCancel ==
    [][ /\ isCancelled =>
             \A url \in DOMAIN reqs :
                reqs[url].st = "pending" =>
                   url \in DOMAIN reqs' /\ reqs'[url].st = "pending"
        /\ \A url \in DOMAIN reqs' :
              reqs'[url].st = "pending" =>
                 \A k \in DOMAIN Results' : Results'[k].url # url ]_vars

C7_Witness ==
    /\ isCancelled /\ pc = "done" /\ runEnd = "cancelled"
    /\ \E a, b \in DOMAIN reqs : reqs[a].st = "pending" /\ reqs[b].st # "pending"

C9_CompletedAtCancel ==
    (pc = "done" /\ runEnd = "cancelled") =>
        getState.completedRequests = Len(Results)

C9_Witness ==
    /\ pc = "done" /\ runEnd = "cancelled" /\ ~batch.parallelProcessing
    /\ Len(Results) = 2 /\ Results[1].status = "success"
    /\ Results[2].errors = <<CancelMessage>>

\* C10: during a run, 0 <= completedRequests <= totalRequests in every state.
C10_CompletedWithinTotal ==
    /\ 0 <= workflowState.completedRequests
    /\ workflowState.completedRequests <= workflowState.totalRequests

C10_Witness ==
    /\ pc \in {"await", "yieldResult", "yieldError", "yieldChunk"}
    /\ workflowState.totalRequests >= 2
    /\ workflowState.completedRequests = workflowState.totalRequests - 1
    /\ Len(workflowState.errors) >= 1

\* position of a step in the order setup, scraping, composition, validation,
\* complete, with error last
StepRank(step) ==
    CASE step = "setup" -> 0
      [] step = "scraping" -> 1
      [] step = "composition" -> 2
      [] step = "validation" -> 3
      [] step = "complete" -> 4
      [] step = "error" -> 5

\* C11: no update of the WorkflowState takes step from a later value of the
\* order setup, scraping, composition, validation, complete back to an
\* earlier one; only error may be entered from anywhere.
C11_StepOnlyForward ==
    [][StepRank(workflowState'.step) >= StepRank(workflowState.step)]_vars

\* C12: whenever step is complete, completedRequests = totalRequests.
C12_CompleteMeansAllCounted ==
    workflowState.step = "complete" =>
        workflowState.completedRequests = workflowState.totalRequests

ErrorResults == {k \in DOMAIN Results : Results[k].status = "error"}

\* C13: after a run, in both modes, WorkflowState.errors has exactly one entry
\* per error-status result emitted, tagged with the requestId of that result.
C13_OneErrorEntryPerFailure ==
    Drained =>
        /\ Len(workflowState.errors) = Cardinality(ErrorResults)
        /\ \A k \in ErrorResults :
              Cardinality({e \in DOMAIN workflowState.errors :
                             workflowState.errors[e].requestId = Results[k].requestId}) = 1

\* C14: when an error that is not a per-request failure has ended the run,
\* step is error (and the generator has ended, so nothing more is processed).
C14_FaultSetsStepError ==
    runEnd = "fault" => pc = "done" /\ workflowState.step = "error"

\* C15: a run that was never cancelled and was drained to its end has step
\* complete, whatever requests failed, and no state of a run has step error.
C15_EndsComplete ==
    /\ (Drained /\ ~isCancelled) => workflowState.step = "complete"
    /\ workflowState.step # "error"

C15_Witness ==
    /\ Drained /\ ~isCancelled /\ K >= 2
    /\ \A url \in 1..K : reqs[url].st = "rejected"
    /\ Len(Results) = K
    /\ workflowState.step = "complete"

(* ------------------------- properties of retry ------------------------ *)
\* the call has failed and every attempt failed with an error the strategy
\* classifies as transient (an earlier non-transient error would have ended it)
FailedOnTransientOnly ==
    rpc = "done" /\ outcome.kind \in {"error", "exhausted"}
       /\ isRetryableError(strategy, lastError)

\* C16: a call with config.maxAttempts = N whose operation fails every time
\* with a transient error has invoked the operation exactly N times, whatever
\* the module-level retry config is.
C16_InvokesMaxAttemptsTimes ==
    FailedOnTransientOnly => opCalls = strategy.config.maxAttempts

\* C17: when the operation failed with a transient error on every permitted
\* attempt, the call raises RetryExhaustedError with attempts = the number of
\* attempts made and lastError = the last error, never the bare error.
C17_RaisesRetryExhausted ==
    FailedOnTransientOnly =>
        /\ outcome.kind = "exhausted"
        /\ outcome.attempts = opCalls
        /\ outcome.error = lastError

\* C18: when an attempt fails with an error the strategy does not classify as
\* transient, the call raises that same error at once: the operation is not
\* invoked again, nothing is slept after the failure and no
\* RetryExhaustedError is raised, whatever attempts remain.
C18_FatalErrorSurfacesAtOnce ==
    (lastError # NoError /\ ~isRetryableError(strategy, lastError)) =>
        /\ rpc = "done"
        /\ outcome = [kind |-> "error", attempts |-> 0, error |-> lastError]
        /\ opCalls = attempt
        /\ Len(slept) = attempt - 1

C18_Witness ==
    /\ rpc = "done" /\ lastError = AuthError /\ attempt = 2
    /\ strategy.config.maxAttempts = 3 /\ strategyConfig.maxAttempts = 3
    /\ outcome.kind = "error"

\* C19: the exponential and the fixed-delay strategy built from the same
\* RetryConfig answer shouldRetry(attempt, error) alike for every attempt
\* number and every error.
C19_SameShouldRetry ==
    strategy.kind # "none" =>
    \A att \in 1..(MaxAttemptsArg + 1), error \in ErrorMessages :
       shouldRetry([kind |-> "exponential", config |-> strategy.config], att, error)
          = shouldRetry([kind |-> "fixed", config |-> strategy.config], att, error)

\* the call in progress uses the exponential strategy with a multiplier > 1
ExponentialGrowing ==
    strategy.kind = "exponential" /\ strategy.config.backoffMultiplier > 1

\* C20 as stated: with backoffMultiplier > 1, with or without jitter, the
\* delays computed for attempts 1, 2, ... are non-decreasing and none exceeds
\* maxDelay.
C20_DelaysMonotoneAndCapped ==
    ExponentialGrowing =>
        /\ \A k \in DOMAIN slept : slept[k] <= strategy.config.maxDelay * DelayScale
        /\ \A k \in DOMAIN slept : k > 1 => slept[k - 1] <= slept[k]

\* C20 amended: with backoffMultiplier > 1 the k-th delay is the capped delay
\* min(baseDelay * multiplier^(k-1), maxDelay) when jitter is off, so the
\* delays are non-decreasing and none exceeds maxDelay; with jitter on it lies
\* between the capped delay and 1.1 times the capped delay.
C20_DelaysCappedUpToJitter ==
    ExponentialGrowing =>
        \A k \in DOMAIN slept :
           LET capped == cappedDelay(strategy.config, k) * DelayScale IN
           /\ capped <= strategy.config.maxDelay * DelayScale
           /\ k > 1 => cappedDelay(strategy.config, k - 1) * DelayScale <= capped
           /\ IF strategy.config.jitter
              THEN capped <= slept[k] /\ slept[k] * 10 < capped * 11
              ELSE /\ slept[k] = capped
                   /\ slept[k] <= strategy.config.maxDelay * DelayScale
                   /\ k > 1 => slept[k - 1] <= slept[k]

C20_Witness ==
    /\ ExponentialGrowing /\ ~strategy.config.jitter
    /\ strategy.config.baseDelay = 1 /\ strategy.config.maxDelay = 2
    /\ Len(slept) = 2 /\ slept[1] = DelayScale /\ slept[2] = 2 * DelayScale

(* C21: in every call of retryWithStrategy the hooks fire as follows, and
   they are only logged: onRetry once before each re-invocation of the
   operation, with the number of the attempt that failed and the delay then
   slept; onSuccess once if the call returns; onFailure once if it throws;
   never both onSuccess and onFailure. *)
HooksNamed(name) == SelectSeq(hooks, LAMBDA c : c.hook = name)

CallsThat(st) == {k \in 1..Len(calls) : calls[k].st = st}

C22_OpensAtNthConsecutiveFailure ==
    [][ breaker'.created =>
          /\ breaker'.state = "CLOSED" <=> streak' < breaker'.failureThreshold
          /\ (streak' = breaker.failureThreshold /\ streak' = streak + 1)
                => breaker'.state = "OPEN" ]_vars

\* N = 2: failure, success, failure: two failures, not consecutive, CLOSED
C22_Witness ==
    /\ breaker.created
    /\ breaker.failureThreshold = 2
    /\ Cardinality(CallsThat("failed")) = 2
    /\ Cardinality(CallsThat("ok")) = 1
    /\ streak = 1
    /\ breaker.state = "CLOSED"

(* C23: an execute call that arrives while the breaker is OPEN and less than
   recoveryTimeout has elapsed since its last failure is rejected with the
   circuit-open error, and the wrapped operation is not invoked. *)
C23_OpenRejects ==
    \A k \in 1..Len(calls) :
        (calls[k].stateAtCall = "OPEN" /\ calls[k].sinceFailure < breaker.recoveryTimeout)
            => /\ calls[k].st = "rejected"
               /\ calls[k].error = CircuitOpenMessage
               /\ ~calls[k].invoked

C23_Witness ==
    \E k \in 1..Len(calls) :
        /\ calls[k].stateAtCall = "OPEN"
        /\ calls[k].sinceFailure < breaker.recoveryTimeout
        /\ calls[k].sinceFailure > 0
        /\ calls[k].st = "rejected"

(* C24: once recoveryTimeout has elapsed on an OPEN breaker exactly one
   probing call is let through: an execute call that arrives while the
   breaker is HALF_OPEN (the probe has not finished) does not invoke the
   operation. *)
C24_OneProbeOnly ==
    \A k \in 1..Len(calls) : calls[k].stateAtCall = "HALF_OPEN" => ~calls[k].invoked

(* C25: the probe (the call let through from OPEN) that finishes while the
   breaker is HALF_OPEN decides the next state: on success CLOSED with
   failureCount 0; on failure OPEN with lastFailureTime the time of that
   failure; and the breaker leaves OPEN for HALF_OPEN only when a full
   recoveryTimeout has elapsed since lastFailureTime. *)
IsProbe(k) == calls[k].stateAtCall = "OPEN" /\ calls[k].invoked

C25_ProbeDecides ==
    [][ /\ \A k \in 1..Len(calls) :
              (breaker.state = "HALF_OPEN" /\ IsProbe(k) /\ calls[k].st = "running"
                 /\ calls'[k].st # "running")
              => IF calls'[k].st = "ok"
                 THEN breaker'.state = "CLOSED" /\ breaker'.failureCount = 0
                 ELSE breaker'.state = "OPEN" /\ breaker'.lastFailureTime = now
        /\ (breaker.state = "OPEN" /\ breaker'.state = "HALF_OPEN")
              => now - breaker.lastFailureTime >= breaker.recoveryTimeout ]_vars

\* a probe failed at a later time than the failure that opened the breaker,
\* and a second probe was let through after it
C25_Witness ==
    \E k, j \in 1..Len(calls) :
        /\ k < j
        /\ IsProbe(k) /\ calls[k].st = "failed"
        /\ IsProbe(j) /\ calls[j].st = "ok"
        /\ breaker.state = "CLOSED" /\ breaker.failureCount = 0

(* C26: a snapshot returned by the tracker's getProgress() is immutable: no
   later updateProgress, addError or reset changes any of its fields, its
   list of error entries included. *)
C26_SnapshotsImmutable ==
    \A k \in 1..Len(snapshots) : Deref(snapshots[k].snap) = snapshots[k].seen

(* C27: getState() never changes the WorkflowState, and two getState() calls
   with no state update in between return snapshots equal field by field. *)
C27_GetStateIdempotent ==
    [][ (Len(observed') = Len(observed) + 1
           /\ observed'[Len(observed')].op = "getState")
        => /\ workflowState' = workflowState
           /\ (observed # <<>> /\ observed[Len(observed)].op = "getState")
                 => observed'[Len(observed')].value = observed[Len(observed)].value ]_vars

\* two snapshots in a row, taken after some updates
C27_Witness ==
    /\ Len(observed) >= 2
    /\ observed[Len(observed)].op = "getState"
    /\ observed[Len(observed) - 1].op = "getState"
    /\ observed[Len(observed)].value.completedRequests > 0
    /\ observed[Len(observed)].value.errors # <<>>

(* C28 as stated: after construction or reset, under updateProgress calls
   that supply no eta, eta is undefined in every state with
   completedRequests = 0, and set in every state with totalRequests > 0 and
   completedRequests > 0. *)
C28_NoEtaWhileNothingCompleted ==
    /\ tracker.completedRequests = 0 => tracker.eta = "undefined"
    /\ (tracker.totalRequests > 0 /\ tracker.completedRequests > 0)
          => tracker.eta # "undefined"

(* C28 amended: eta is undefined after construction and after reset; an
   updateProgress call sets it when it leaves totalRequests > 0 and
   completedRequests > 0 and otherwise leaves it as it was. So no ETA is
   published before the first completion, and one published earlier stays
   when completedRequests returns to 0. *)
C28_EtaOnlyFromCompletion ==
    [][ /\ (tracker'.totalRequests > 0 /\ tracker'.completedRequests > 0)
              => tracker'.eta # "undefined"
        /\ tracker'.eta # tracker.eta
              => \/ tracker'.totalRequests > 0 /\ tracker'.completedRequests > 0
                 \/ tracker' = freshTrackerState(tracker'.errors) ]_vars

\* a snapshot with requests but no completion and no ETA, and an ETA now
C28_Witness ==
    /\ tracker.eta # "undefined"
    /\ tracker.completedRequests > 0
    /\ \E k \in 1..Len(snapshots) :
          /\ snapshots[k].seen.totalRequests > 0
          /\ snapshots[k].seen.completedRequests = 0
          /\ snapshots[k].seen.eta = "undefined"

(* C29: for both formatters, an update(state) call whose rendered text equals
   the text of the previous render writes nothing to the output. *)
C29_UnchangedTextNotWritten ==
    \A k \in 2..Len(renders) :
        renders[k].text = renders[k - 1].text => renders[k].written = <<>>

(* C30: when the run has ended, the reporter has made exactly one final
   render, of the final state, and has written it whatever the text rendered
   before: one even when both cancel() and the end of the run stopped the
   progress manager. *)
FinalRenders == SelectSeq(renders, LAMBDA r : r.by \in {"cancel", "finally"})

C30_OneFinalRender ==
    phase.ended =>
        /\ Len(FinalRenders) = 1
        /\ \E j \in DOMAIN FinalRenders[1].written : FinalRenders[1].written[j] = "text"

(* C37: in every reachable state of a CircuitBreaker with failureThreshold
   >= 1, under any interleaving of execute calls and reset(): CLOSED implies
   failureCount < failureThreshold, and the breaker is OPEN or HALF_OPEN only
   with failureCount at or above failureThreshold. *)
C37_StateAgreesWithCount ==
    breaker.created =>
        /\ breaker.state = "CLOSED" => breaker.failureCount < breaker.failureThreshold
        /\ breaker.state \in {"OPEN", "HALF_OPEN"}
              => breaker.failureCount >= breaker.failureThreshold

\* a breaker closed by reset() after it had opened, a call still in flight
C37_Witness ==
    /\ breaker.created
    /\ breaker.state = "CLOSED"
    /\ breaker.failureCount = 0
    /\ Cardinality(CallsThat("failed")) >= breaker.failureThreshold
    /\ CallsThat("rejected") # {}
    /\ CallsThat("ok") = {}
    /\ CallsThat("running") # {}

(* C38: an OPEN breaker leaves OPEN only by becoming HALF_OPEN once
   recoveryTimeout has elapsed, or by reset(): the success of a call started
   before the breaker opened does not close it. *)
C38_OpenLeftOnlyByProbeOrReset ==
    [][ (breaker.state = "OPEN" /\ breaker'.state # "OPEN")
        => \/ /\ breaker'.state = "HALF_OPEN"
              /\ now - breaker.lastFailureTime >= breaker.recoveryTimeout
           \/ /\ breaker'.state = "CLOSED"
              /\ calls' = calls ]_vars

(* C39: an execute call rejected because the breaker is OPEN leaves the
   breaker unchanged (state, failureCount, lastFailureTime), so rejected calls
   do not postpone the moment the breaker may become HALF_OPEN. *)
C39_RejectionLeavesBreaker ==
    [][ (Len(calls') = Len(calls) + 1 /\ calls'[Len(calls')].st = "rejected")
        => breaker' = breaker ]_vars

\* a call was rejected, and a later call was let through as the probe exactly
\* recoveryTimeout after the last failure
C39_Witness ==
    \E k, j \in 1..Len(calls) :
        /\ k < j
        /\ calls[k].st = "rejected"
        /\ IsProbe(j)
        /\ calls[j].sinceFailure = breaker.recoveryTimeout

(* C32: getCombinedProgress returns total, completed and errors equal to the
   sums of totalRequests, completedRequests and the numbers of error entries
   over the tracked workflows, workflows equal to their number, and leaves
   every workflow's state unchanged. *)
TrackedProgress == [k \in 1..Len(managers) |-> objects[managers[k].obj].tracker]

ErrorCounts == [k \in 1..Len(managers) |-> [n |-> Len(TrackedProgress[k].errors)]]

C32_CombinedIsSum ==
    [][ (returned'.op = "getCombinedProgress" /\ returned'.call = multiCalls + 1)
        => /\ returned'.value.total = SumOver(TrackedProgress, "totalRequests")
           /\ returned'.value.completed = SumOver(TrackedProgress, "completedRequests")
           /\ returned'.value.errors = SumOver(ErrorCounts, "n")
           /\ returned'.value.workflows = Len(managers)
           /\ objects' = objects
           /\ managers' = managers ]_vars

\* a summary over two workflows, with a completion and an error entry
C32_Witness ==
    /\ returned.op = "getCombinedProgress"
    /\ returned.value.workflows = 2
    /\ returned.value.total >= 1
    /\ returned.value.errors >= 1

(* C40: after any sequence of createWorkflow, removeWorkflow and stopAll
   calls, every ProgressManager with an active polling timer is reachable
   through getWorkflow under some identifier. *)
C40_RunningManagersTracked ==
    \A o \in 1..Len(objects) :
        objects[o].interval => \E id \in WorkflowIds : getWorkflow(managers, id) = o

(* C31: ProgressManager start and stop are idempotent: stop() on a stopped
   manager changes nothing (no render, no change of the manager), and the
   polling timer exists exactly when isRunning() is true. *)
StopCalled == phase'.cancelled # phase.cancelled \/ phase'.ended # phase.ended

C31_StartStopIdempotent ==
    [][ /\ manager'.interval <=> manager'.isActive
        /\ (StopCalled /\ manager.created /\ ~manager.isActive)
              => (renders' = renders /\ manager' = manager) ]_vars

(* C33: every result with status success has at least one composition, a
   request whose capture gave zero items without raising has status partial,
   and a result with status error carries the message in its errors list. *)
C33_StatusFollowsArtifacts ==
    \A k \in DOMAIN Results :
        /\ Results[k].status = "success" => Results[k].compositions >= 1
        /\ (Results[k].status # "error" /\ Results[k].capturedImages = 0)
              => Results[k].status = "partial"
        /\ Results[k].status = "error" => Len(Results[k].errors) >= 1

(* C34: processSingle(request) with no cancellation signalled yields exactly
   one ProcessingResult, for the request, whether processing succeeds or
   fails, and then ends. *)
C34_SingleYieldsOne ==
    (single /\ ~isCancelled) =>
        /\ Len(Results) <= 1
        /\ \A k \in DOMAIN Results : Results[k].url = 1
        /\ Drained => (Len(Results) = 1 /\ runEnd = "complete")

\* a processSingle stream that ended after the one result of a failed request
C34_Witness ==
    /\ single /\ ~isCancelled /\ Drained
    /\ Len(Results) = 1
    /\ Results[1].status = "error"

(* C35: a cancel() issued during one run affects only that run: a
   processBatch run started after the other run has ended, and during which
   cancel() was not called, emits K results when its generator is drained. *)
C35_CancelStaysInItsRun ==
    (pc = "done" /\ hist.alone /\ ~hist.cancelled) => Len(Results) = K

(* C36: when two processBatch runs overlap, each run's progress is its own:
   while a run goes on, totalRequests is the size of its batch,
   completedRequests does not exceed it nor the number of requests the run
   has started. *)
C36_RunsIndependent ==
    LET RunProgressIsOwn(n, p, idx) ==
            Active(p) =>
                /\ workflowState.totalRequests = n
                /\ workflowState.completedRequests <= workflowState.totalRequests
                /\ workflowState.completedRequests <= idx + 1
    IN  /\ RunProgressIsOwn(Len(batch.requests), pc, i)
        /\ RunProgressIsOwn(Len(other.batch.requests), other.pc, other.i)

=============================================================================
